---------------------------- MODULE Spec2Model ----------------------------
(***************************************************************************)
(* The batching scheduler of the text2vec-openai vectorizer                *)
(* (modules/text2vec-openai/vectorizer/objects.go): callers of ObjectBatch *)
(* build a batchJob and send it on jobQueueCh; the single batchWorker      *)
(* goroutine receives jobs one at a time, splits each into vectorizer      *)
(* batches under the provider's rate limits and signals the job's          *)
(* WaitGroup.                                                              *)
(*                                                                         *)
(* Indices are 1-based here (Go index i is i+1).  Time is in whole         *)
(* seconds; a job's elapsed time (time.Since(job.startTime)) saturates at  *)
(* maxBatchTime, which no comparison of the code can tell from a larger    *)
(* value.  The float32 expressions of the code are computed in integers;   *)
(* the two agree for every LimitTokens up to 21.                           *)
(***************************************************************************)
EXTENDS Integers, Sequences, FiniteSets, TLC

\* ------------------------------------------------------------- bounds
NumCallers == 1          \* goroutines that call ObjectBatch
MaxCalls == 2            \* ObjectBatch calls of one caller, one after the other
MaxObjects == 3          \* len(objects) of one ObjectBatch call
MaxTokens == 1           \* token count of one text
MaxObjectsPerBatch == 2  \* 2000 in the source, scaled
BatchChannelSize == 1    \* 100 in the source, scaled
maxBatchTime == 3        \* v.maxBatchTime, seconds
SlowCall == 10           \* duration of a slow client call, seconds
OpenAiMaxTimePerBatch == 10
ConcCallers == 2         \* goroutines that call ObjectBatch at the same time
ConcMaxObjects == 2      \* len(objects) of one of their calls

CallDurations == {0, SlowCall}

Min(a, b) == IF a < b THEN a ELSE b

\* ------------------------------------------------------------- types
NoErr == "none"
NoVec == 0
NilRL == [nil |-> TRUE]

\* ent.RateLimits (LimitRequests is never read)
RL(limit, remaining, reset, remainingRequests, resetRequests) ==
    [LimitTokens |-> limit, RemainingTokens |-> remaining, ResetTokens |-> reset,
     RemainingRequests |-> remainingRequests, ResetRequests |-> resetRequests]

\* the rate limits a client reports
RLValuesAll ==
    [LimitTokens : {0, 4}, RemainingTokens : {0, 1, 4}, ResetTokens : {0, 1},
     RemainingRequests : {0, 1}, ResetRequests : {0, 2}]

\* one of them for each way the worker can go: plenty of tokens, a limit below
\* any text, tokens that refresh, tokens that do not, no request left
RLValuesFew ==
    {RL(4, 4, 0, 1, 0), RL(0, 4, 0, 1, 0), RL(4, 1, 1, 1, 0), RL(4, 1, 0, 1, 0),
     RL(4, 4, 0, 0, 2)}

\* &ent.RateLimits{}
ZeroRL ==
    [LimitTokens |-> 0, RemainingTokens |-> 0, ResetTokens |-> 0,
     RemainingRequests |-> 0, ResetRequests |-> 0]

\* a float64 quotient took/tok; tok = 0 stands for +Inf and NaN
Tpt(took, tok) ==
    IF tok = 0 THEN [took |-> 1, tok |-> 0]
    ELSE IF took = 0 THEN [took |-> 0, tok |-> 1]
    ELSE [took |-> took, tok |-> tok]

NoJob ==
    [n |-> 0, tokens |-> << >>, skipObject |-> << >>, vecs |-> << >>,
     errs |-> << >>, elapsed |-> 0,
     sent |-> << >>, done |-> 0, path |-> "none"]

VARIABLES
    pc,                   \* caller's position in ObjectBatch
    calls,                \* ObjectBatch calls the caller has made
    jobs,                 \* the batchJob of each caller, with its shared buffers
    jobQueueCh,           \* v.jobQueueCh: callers whose job is buffered
    wpc,                  \* batchWorker's position
    cur,                  \* caller whose job the worker holds (0: none)
    objCounter,
    tokensInCurrentBatch,
    origIndex,            \* texts and origIndex run in parallel
    rateLimit,
    firstRequest,
    timePerToken,
    accBudget,            \* history: RemainingTokens at the last admission
    slept                 \* history: the worker has slept for the token
                          \* refresh on behalf of the object at objCounter

workerVars ==
    <<wpc, cur, objCounter, tokensInCurrentBatch, origIndex, rateLimit,
      firstRequest, timePerToken>>
vars ==
    <<pc, calls, jobs, jobQueueCh, wpc, cur, objCounter, tokensInCurrentBatch,
      origIndex, rateLimit, firstRequest, timePerToken, accBudget, slept>>

\* the goroutines that call ObjectBatch
Callers == DOMAIN pc

\* several goroutines call ObjectBatch at the same time; their inputs and the
\* client's answers are then drawn from the smaller sets
Concurrent == Cardinality(Callers) > 1
RLValues == IF Concurrent THEN RLValuesFew ELSE RLValuesAll
ObjectsBound == IF Concurrent THEN ConcMaxObjects ELSE MaxObjects

\* New: n callers, each with `made` calls behind it that took the skipAll
\* short cut, which leaves the queue and the worker as New made them
InitOf(n, made) ==
    /\ pc = [c \in 1..n |-> "idle"]
    /\ calls = [c \in 1..n |-> made]
    /\ jobs = [c \in 1..n |-> NoJob]
    /\ jobQueueCh = << >>
    /\ wpc = "recv"
    /\ cur = 0
    /\ objCounter = 1
    /\ tokensInCurrentBatch = 0
    /\ origIndex = << >>
    /\ rateLimit = ZeroRL
    /\ firstRequest = TRUE
    /\ timePerToken = Tpt(0, 1)
    /\ accBudget = 0
    /\ slept = FALSE

Init == InitOf(NumCallers, 0)

\* each of ConcCallers callers has one call left
ConcInit == InitOf(ConcCallers, MaxCalls - 1)


\* ------------------------------------------------------------- helpers

\* a job that is under way: its startTime is set and wg.Done has not run
Live(c) == pc[c] \in {"sending", "waiting"} /\ jobs[c].done = 0

\* d seconds pass: time.Since(job.startTime) grows for every job under way
AdvanceTime(js, d) ==
    [c \in Callers |->
        IF Live(c)
        THEN [js[c] EXCEPT !.elapsed = Min(@ + d, maxBatchTime)]
        ELSE js[c]]

\* what client.Vectorize can return for len texts: a call-level error with
\* or without rate limits, or a result with an error or a vector per text
Responses(len) ==
    [err : {TRUE}, itemErr : {{}}, rl : RLValues \cup {NilRL}]
        \cup [err : {FALSE}, itemErr : SUBSET (1..len), rl : RLValues]

\* the position in the batch taken for the job index: job.vecs[j], not
\* job.vecs[origIndex[j]]
PosOf_SamePlace(idx, i) == IF i <= Len(idx) THEN i ELSE 0

\* position of job index i in idx, 0 when idx does not hold it
PosOf(idx, i) ==
    IF \E k \in 1..Len(idx) : idx[k] = i
    THEN CHOOSE k \in 1..Len(idx) : idx[k] = i
    ELSE 0

\* makeRequest's writes to the job's buffers; the embedding of the text of
\* job index i is i, so the vector at position k of the result is idx[k].
\* sent is history: the indices that a returned client call has carried
MakeRequest(j, idx, resp) ==
    [j EXCEPT
        !.errs = [i \in 1..j.n |->
            IF PosOf(idx, i) = 0 THEN j.errs[i]
            ELSE IF resp.err THEN "call"
            ELSE IF PosOf(idx, i) \in resp.itemErr THEN "item"
            ELSE j.errs[i]],
        !.vecs = [i \in 1..j.n |->
            IF PosOf(idx, i) # 0 /\ ~resp.err /\ PosOf(idx, i) \notin resp.itemErr
            THEN idx[PosOf(idx, i)]
            ELSE j.vecs[i]],
        !.sent = [i \in 1..j.n |-> PosOf(idx, i) # 0 \/ j.sent[i]]]

\* job.errs[i] = e for every non-skipped index from `from` on
FailFrom(j, from, e) ==
    [j EXCEPT !.errs = [i \in 1..j.n |->
        IF i >= from /\ ~j.skipObject[i] THEN e ELSE j.errs[i]]]

\* the token sum compared with the token limit, not with what remains of it
UnderBudget_AgainstLimit(sum, rl) == 100 * sum < 95 * rl.LimitTokens

\* float32(sum) < 0.95*float32(RemainingTokens)
UnderBudget(sum, rl) == 100 * sum < 95 * rl.RemainingTokens

\* timePerToken*float64(tokensInCurrentBatch) < OpenAiMaxTimePerBatch
UnderTime(tpt, inBatch) ==
    tpt.tok > 0 /\ tpt.took * inBatch < OpenAiMaxTimePerBatch * tpt.tok

\* the cap checked with <= : one text too many
UnderCap_OffByOne(len) == len <= MaxObjectsPerBatch

\* len(texts) < MaxObjectsPerBatch
UnderCap(len) == len < MaxObjectsPerBatch

\* the admission condition of the vectorizer-batch
Admits(inBatch, tok, rl, tpt, len) ==
    /\ UnderBudget(inBatch + tok, rl)
    /\ UnderTime(tpt, inBatch)
    /\ UnderCap(len)

\* time.Duration(float32(ResetTokens)*fractionOfTotalLimit+1) * time.Second
SleepTime(rl, tok) == ((rl.ResetTokens * tok) \div rl.LimitTokens) + 1

\* the whole limit credited, whatever share of it the text needs
Credit_WholeLimit(rl, tok) == rl.LimitTokens

\* int(float32(LimitTokens) * fractionOfTotalLimit)
Credit(rl, tok) == (rl.LimitTokens * tok) \div rl.LimitTokens

\* time.Since(job.startTime)+sleepTime < v.maxBatchTime
CanWaitForTokens(elapsed, sleep) == elapsed + sleep < maxBatchTime

\* time.Since(job.startTime)+ResetRequests*time.Second > v.maxBatchTime
CannotWaitForRequests(elapsed, rl) == elapsed + rl.ResetRequests > maxBatchTime

\* rateLimit.RemainingRequests == 0 && rateLimit.ResetRequests > 0
Throttled(rl) == rl.RemainingRequests = 0 /\ rl.ResetRequests > 0

\* ------------------------------------------------------------- callers

\* the short cut is never taken
SkipAll_Never(skip) == FALSE

\* skipAll: no object is left to vectorize
SkipAll(skip) == \A i \in DOMAIN skip : skip[i]

\* ObjectBatch up to the send: the WaitGroup, the buffers, the encoder, the
\* texts and tokens of the non-skipped objects, the skipAll short cut
ObjectBatch(c) ==
    /\ pc[c] = "idle"
    /\ calls[c] < MaxCalls
    /\ calls' = [calls EXCEPT ![c] = @ + 1]
    /\ \E n \in 1..ObjectsBound, tkeOk \in BOOLEAN :
       \E skip \in [1..n -> BOOLEAN], toks \in [1..n -> 1..MaxTokens] :
          LET job == [n |-> n,
                      tokens |-> [i \in 1..n |-> IF skip[i] THEN 0 ELSE toks[i]],
                      skipObject |-> skip,
                      vecs |-> [i \in 1..n |-> NoVec],
                      errs |-> [i \in 1..n |-> NoErr],
                      elapsed |-> 0,
                      sent |-> [i \in 1..n |-> FALSE], done |-> 0, path |-> "queue"]
          IN  \* toks of skipped objects are never computed
              /\ \A i \in 1..n : skip[i] => toks[i] = 1
              /\ IF ~tkeOk
                 THEN /\ jobs' = [jobs EXCEPT ![c] =
                            [job EXCEPT !.errs = [i \in 1..n |-> "encoding"],
                                        !.tokens = [i \in 1..n |-> 0],
                                        !.path = "tkeErr"]]
                      /\ pc' = [pc EXCEPT ![c] = "returned"]
                 ELSE IF SkipAll(skip)
                 THEN /\ jobs' = [jobs EXCEPT ![c] = [job EXCEPT !.path = "skipAll"]]
                      /\ pc' = [pc EXCEPT ![c] = "returned"]
                 ELSE /\ jobs' = [jobs EXCEPT ![c] = job]
                      /\ pc' = [pc EXCEPT ![c] = "sending"]
    /\ UNCHANGED <<jobQueueCh, workerVars, accBudget, slept>>

\* a send that never blocks: the channel takes a job it has no room for
HasRoom_Always(q) == TRUE

\* the channel made with make(chan batchJob, BatchChannelSize) has a free slot
HasRoom(q) == Len(q) < BatchChannelSize

\* v.jobQueueCh <- batchJob{...}: blocks while the channel is full
Enqueue(c) ==
    /\ pc[c] = "sending"
    /\ HasRoom(jobQueueCh)
    /\ jobQueueCh' = Append(jobQueueCh, c)
    /\ pc' = [pc EXCEPT ![c] = "waiting"]
    /\ UNCHANGED <<calls, jobs, workerVars, accBudget, slept>>

\* a caller that any job's signal wakes
Signalled_Any(c) == \E d \in Callers : jobs[d].done > 0

\* the WaitGroup of c's own call is released
Signalled(c) == jobs[c].done > 0

\* wg.Wait() returns; return vecs, errs
WaitReturn(c) ==
    /\ pc[c] = "waiting"
    /\ Signalled(c)
    /\ pc' = [pc EXCEPT ![c] = "returned"]
    /\ UNCHANGED <<calls, jobs, jobQueueCh, workerVars, accBudget, slept>>

\* the caller has its results; the job and its buffers are garbage
Return(c) ==
    /\ pc[c] = "returned"
    /\ pc' = [pc EXCEPT ![c] = "idle"]
    /\ jobs' = [jobs EXCEPT ![c] = NoJob]
    /\ UNCHANGED <<calls, jobQueueCh, workerVars, accBudget, slept>>

\* ------------------------------------------------------------- batchWorker

Job == jobs[cur]
HistoryUnchanged == UNCHANGED <<accBudget, slept>>

\* for job := range v.jobQueueCh, and the per-job resets
Receive ==
    /\ wpc = "recv"
    /\ jobQueueCh # << >>
    /\ cur' = Head(jobQueueCh)
    /\ jobQueueCh' = Tail(jobQueueCh)
    /\ objCounter' = 1
    /\ tokensInCurrentBatch' = 0
    /\ origIndex' = << >>
    /\ accBudget' = 0
    /\ slept' = FALSE
    /\ wpc' = "bootstrap"
    /\ UNCHANGED <<pc, calls, jobs, rateLimit, firstRequest, timePerToken>>

\* first loop: the object is skipped
BootstrapSkip ==
    /\ wpc = "bootstrap"
    /\ objCounter <= Job.n /\ firstRequest
    /\ Job.skipObject[objCounter]
    /\ objCounter' = objCounter + 1
    /\ UNCHANGED <<pc, calls, jobs, jobQueueCh, wpc, cur, tokensInCurrentBatch,
                   origIndex, rateLimit, firstRequest, timePerToken>>
    /\ HistoryUnchanged

\* first loop: send one text to learn the rate limits
BootstrapCall ==
    /\ wpc = "bootstrap"
    /\ objCounter <= Job.n /\ firstRequest
    /\ ~Job.skipObject[objCounter]
    /\ wpc' = "bootCall"
    /\ UNCHANGED <<pc, calls, jobs, jobQueueCh, cur, objCounter, tokensInCurrentBatch,
                   origIndex, rateLimit, firstRequest, timePerToken>>
    /\ HistoryUnchanged

\* where the first loop goes after makeRequest returned resp
BootstrapNext(resp, counter) == IF resp.err THEN counter ELSE counter + 1

\* the flag cleared by a request that failed
FirstRequestAfter_Cleared(resp) == FALSE

\* firstRequest after makeRequest returned resp: false unless err != nil
FirstRequestAfter(resp) == resp.err

\* first loop: makeRequest returns
BootstrapReturn ==
    /\ wpc = "bootCall"
    /\ \E resp \in Responses(1), d \in CallDurations :
          /\ jobs' = [AdvanceTime(jobs, d) EXCEPT
                        ![cur] = MakeRequest(AdvanceTime(jobs, d)[cur],
                                             <<objCounter>>, resp)]
          /\ rateLimit' = resp.rl
          /\ firstRequest' = FirstRequestAfter(resp)
          /\ objCounter' = BootstrapNext(resp, objCounter)
    /\ wpc' = "bootstrap"
    /\ UNCHANGED <<pc, calls, jobQueueCh, cur, tokensInCurrentBatch, origIndex,
                   timePerToken>>
    /\ HistoryUnchanged

\* the first loop's condition fails
BootstrapExit ==
    /\ wpc = "bootstrap"
    /\ ~(objCounter <= Job.n /\ firstRequest)
    /\ wpc' = "loop"
    /\ UNCHANGED <<pc, calls, jobs, jobQueueCh, cur, objCounter, tokensInCurrentBatch,
                   origIndex, rateLimit, firstRequest, timePerToken>>
    /\ HistoryUnchanged

\* second loop: its condition fails
LoopExit ==
    /\ wpc = "loop"
    /\ objCounter > Job.n
    /\ wpc' = "drain"
    /\ UNCHANGED <<pc, calls, jobs, jobQueueCh, cur, objCounter, tokensInCurrentBatch,
                   origIndex, rateLimit, firstRequest, timePerToken>>
    /\ HistoryUnchanged

\* the index from which the context check fails the job's objects
CtxAbortFrom == objCounter

\* second loop: job.ctx.Err() != nil.  The context can be cancelled at any
\* time; the loop reads it here only and ends the first time it is set
CtxAbort ==
    /\ wpc = "loop"
    /\ objCounter <= Job.n
    /\ jobs' = [jobs EXCEPT ![cur] = FailFrom(Job, CtxAbortFrom, "ctx")]
    /\ wpc' = "drain"
    /\ UNCHANGED <<pc, calls, jobQueueCh, cur, objCounter, tokensInCurrentBatch,
                   origIndex, rateLimit, firstRequest, timePerToken>>
    /\ HistoryUnchanged

\* second loop: job.skipObject[objCounter]
SkipObject ==
    /\ wpc = "loop"
    /\ objCounter <= Job.n
    /\ Job.skipObject[objCounter]
    /\ objCounter' = objCounter + 1
    /\ UNCHANGED <<pc, calls, jobs, jobQueueCh, wpc, cur, tokensInCurrentBatch,
                   origIndex, rateLimit, firstRequest, timePerToken>>
    /\ HistoryUnchanged

\* the second loop is at a non-skipped object and the context is live
AtObject ==
    /\ wpc = "loop"
    /\ objCounter <= Job.n
    /\ ~Job.skipObject[objCounter]

\* second loop: job.tokens[objCounter] > rateLimit.LimitTokens
TooLong ==
    /\ AtObject
    /\ Job.tokens[objCounter] > rateLimit.LimitTokens
    /\ jobs' = [jobs EXCEPT ![cur].errs[objCounter] = "tooLong"]
    /\ objCounter' = objCounter + 1
    /\ UNCHANGED <<pc, calls, jobQueueCh, wpc, cur, tokensInCurrentBatch,
                   origIndex, rateLimit, firstRequest, timePerToken>>
    /\ HistoryUnchanged

\* the object passes the limit check and reaches the admission condition
AtAdmission ==
    /\ AtObject
    /\ Job.tokens[objCounter] <= rateLimit.LimitTokens

\* a batch that takes one object and no more
Admitted_OnlyIfEmpty ==
    /\ Admits(tokensInCurrentBatch, Job.tokens[objCounter], rateLimit,
              timePerToken, Len(origIndex))
    /\ Len(origIndex) = 0

\* the admission condition on the worker's state
Admitted ==
    Admits(tokensInCurrentBatch, Job.tokens[objCounter], rateLimit,
           timePerToken, Len(origIndex))

\* second loop: the object joins the vectorizer-batch; after the last object
\* the loop falls through to the request
Admit ==
    /\ AtAdmission
    /\ Admitted
    /\ tokensInCurrentBatch' = tokensInCurrentBatch + Job.tokens[objCounter]
    /\ origIndex' = Append(origIndex, objCounter)
    /\ objCounter' = objCounter + 1
    /\ accBudget' = rateLimit.RemainingTokens
    /\ slept' = FALSE
    /\ wpc' = IF objCounter + 1 <= Job.n THEN "loop" ELSE "dispCall"
    /\ UNCHANGED <<pc, calls, jobs, jobQueueCh, cur, rateLimit, firstRequest,
                   timePerToken>>

\* the object is refused, the batch is empty and the tokens will refresh
AtTokenWait ==
    /\ AtAdmission
    /\ ~Admitted
    /\ Len(origIndex) = 0 /\ rateLimit.ResetTokens > 0

\* second loop: enter time.Sleep(sleepTime) until the tokens have refreshed
TokenWait ==
    /\ AtTokenWait
    /\ CanWaitForTokens(Job.elapsed, SleepTime(rateLimit, Job.tokens[objCounter]))
    /\ wpc' = "tokenSleep"
    /\ UNCHANGED <<pc, calls, jobs, jobQueueCh, cur, objCounter, tokensInCurrentBatch,
                   origIndex, rateLimit, firstRequest, timePerToken>>
    /\ HistoryUnchanged

\* second loop: the sleep is over; credit the tokens and try the object again
TokenWake ==
    /\ wpc = "tokenSleep"
    /\ jobs' = AdvanceTime(jobs, SleepTime(rateLimit, Job.tokens[objCounter]))
    /\ rateLimit' = [rateLimit EXCEPT !.RemainingTokens =
                        @ + Credit(rateLimit, Job.tokens[objCounter])]
    /\ wpc' = "loop"
    /\ slept' = TRUE
    /\ UNCHANGED <<pc, calls, jobQueueCh, cur, objCounter, tokensInCurrentBatch,
                   origIndex, firstRequest, timePerToken, accBudget>>

\* second loop: the refresh would come too late
TokenWaitFail ==
    /\ AtTokenWait
    /\ ~CanWaitForTokens(Job.elapsed, SleepTime(rateLimit, Job.tokens[objCounter]))
    /\ jobs' = [jobs EXCEPT ![cur].errs[objCounter] = "tooLongWait"]
    /\ objCounter' = objCounter + 1
    /\ slept' = FALSE
    /\ UNCHANGED <<pc, calls, jobQueueCh, wpc, cur, tokensInCurrentBatch,
                   origIndex, rateLimit, firstRequest, timePerToken, accBudget>>

\* second loop: the object is refused and the batch built so far is sent
Dispatch ==
    /\ AtAdmission
    /\ ~Admitted
    /\ ~(Len(origIndex) = 0 /\ rateLimit.ResetTokens > 0)
    /\ wpc' = "dispCall"
    /\ UNCHANGED <<pc, calls, jobs, jobQueueCh, cur, objCounter, tokensInCurrentBatch,
                   origIndex, rateLimit, firstRequest, timePerToken>>
    /\ HistoryUnchanged

\* rateLimitNew != nil => rateLimit = rateLimitNew
Refreshed(rl, resp) == IF resp.rl = NilRL THEN rl ELSE resp.rl

\* the job's buffers and clocks once the request of the second loop returned
AfterRequest(resp, d) ==
    [AdvanceTime(jobs, d) EXCEPT
        ![cur] = MakeRequest(AdvanceTime(jobs, d)[cur], origIndex, resp)]

\* the index from which the request throttle fails the job's objects
ThrottleAbortFrom == origIndex[1]

\* second loop: the request returns and the next vectorizer-batch starts
DispatchReturn ==
    /\ wpc = "dispCall"
    /\ \E resp \in Responses(Len(origIndex)), d \in CallDurations :
          /\ ~Throttled(Refreshed(rateLimit, resp))
          /\ jobs' = AfterRequest(resp, d)
          /\ timePerToken' = Tpt(d, tokensInCurrentBatch)
          /\ rateLimit' = Refreshed(rateLimit, resp)
    /\ tokensInCurrentBatch' = 0
    /\ origIndex' = << >>
    /\ accBudget' = 0
    /\ wpc' = "loop"
    /\ UNCHANGED <<pc, calls, jobQueueCh, cur, objCounter, firstRequest, slept>>

\* second loop: the request returns, no request is left, and the worker
\* enters time.Sleep(ResetRequests) until the requests have refreshed
ThrottleSleep ==
    /\ wpc = "dispCall"
    /\ \E resp \in Responses(Len(origIndex)), d \in CallDurations :
          LET rl == Refreshed(rateLimit, resp)
              after == AfterRequest(resp, d)
          IN /\ Throttled(rl)
             /\ ~CannotWaitForRequests(after[cur].elapsed, rl)
             /\ jobs' = after
             /\ timePerToken' = Tpt(d, tokensInCurrentBatch)
             /\ rateLimit' = rl
    /\ wpc' = "requestSleep"
    /\ UNCHANGED <<pc, calls, jobQueueCh, cur, objCounter, tokensInCurrentBatch,
                   origIndex, firstRequest>>
    /\ HistoryUnchanged

\* second loop: the sleep is over and the next vectorizer-batch starts
ThrottleWake ==
    /\ wpc = "requestSleep"
    /\ jobs' = AdvanceTime(jobs, rateLimit.ResetRequests)
    /\ tokensInCurrentBatch' = 0
    /\ origIndex' = << >>
    /\ accBudget' = 0
    /\ wpc' = "loop"
    /\ UNCHANGED <<pc, calls, jobQueueCh, cur, objCounter, rateLimit, firstRequest,
                   timePerToken, slept>>

\* second loop: the request returns, no request is left and the refresh
\* would come too late: fail the objects and leave the loop
ThrottleAbort ==
    /\ wpc = "dispCall"
    /\ Len(origIndex) > 0
    /\ \E resp \in Responses(Len(origIndex)), d \in CallDurations :
          LET rl == Refreshed(rateLimit, resp)
              after == AfterRequest(resp, d)
          IN /\ Throttled(rl)
             /\ CannotWaitForRequests(after[cur].elapsed, rl)
             /\ jobs' = [after EXCEPT
                           ![cur] = FailFrom(after[cur], ThrottleAbortFrom, "rateLimit")]
             /\ timePerToken' = Tpt(d, tokensInCurrentBatch)
             /\ rateLimit' = rl
    /\ wpc' = "drain"
    /\ UNCHANGED <<pc, calls, jobQueueCh, cur, objCounter, tokensInCurrentBatch,
                   origIndex, firstRequest>>
    /\ HistoryUnchanged

\* the same with an empty batch: origIndex[0] is out of range, the goroutine
\* panics and the worker is gone
ThrottlePanic ==
    /\ wpc = "dispCall"
    /\ Len(origIndex) = 0
    /\ \E resp \in Responses(0), d \in CallDurations :
          LET rl == Refreshed(rateLimit, resp)
              after == AfterRequest(resp, d)
          IN /\ Throttled(rl)
             /\ CannotWaitForRequests(after[cur].elapsed, rl)
             /\ jobs' = after
             /\ timePerToken' = Tpt(d, tokensInCurrentBatch)
             /\ rateLimit' = rl
    /\ wpc' = "panicked"
    /\ UNCHANGED <<pc, calls, jobQueueCh, cur, objCounter, tokensInCurrentBatch,
                   origIndex, firstRequest>>
    /\ HistoryUnchanged

\* the counter compared with the last index, not with the length
MustDrain_LastIndex == Len(origIndex) > 0 /\ objCounter = Job.n

\* len(texts) > 0 && objCounter == len(job.texts)
MustDrain == Len(origIndex) > 0 /\ objCounter = Job.n + 1

\* after the second loop: send the batch that is left
DrainCall ==
    /\ wpc = "drain"
    /\ MustDrain
    /\ wpc' = "drainCall"
    /\ UNCHANGED <<pc, calls, jobs, jobQueueCh, cur, objCounter, tokensInCurrentBatch,
                   origIndex, rateLimit, firstRequest, timePerToken>>
    /\ HistoryUnchanged

\* wg.Done() called twice for one job
WgDone_Twice(j) == [j EXCEPT !.done = 2]

\* job.wg.Done()
WgDone(j) == [j EXCEPT !.done = Min(@ + 1, 2)]

\* after the second loop: nothing is left to send; signal the job
DrainSkip ==
    /\ wpc = "drain"
    /\ ~MustDrain
    /\ jobs' = [jobs EXCEPT ![cur] = WgDone(Job)]
    /\ wpc' = "recv"
    /\ UNCHANGED <<pc, calls, jobQueueCh, cur, objCounter, tokensInCurrentBatch,
                   origIndex, rateLimit, firstRequest, timePerToken>>
    /\ HistoryUnchanged

\* after the second loop: the last request returns; signal the job
DrainReturn ==
    /\ wpc = "drainCall"
    /\ \E resp \in Responses(Len(origIndex)), d \in CallDurations :
          /\ jobs' = [AfterRequest(resp, d) EXCEPT
                        ![cur] = WgDone(AfterRequest(resp, d)[cur])]
          /\ rateLimit' = Refreshed(rateLimit, resp)
    /\ wpc' = "recv"
    /\ UNCHANGED <<pc, calls, jobQueueCh, cur, objCounter, tokensInCurrentBatch,
                   origIndex, firstRequest, timePerToken>>
    /\ HistoryUnchanged

\* ------------------------------------------------------------- specification

CallerNext ==
    \E c \in Callers :
        ObjectBatch(c) \/ Enqueue(c) \/ WaitReturn(c) \/ Return(c)
WorkerNext ==
    \/ Receive
    \/ BootstrapSkip \/ BootstrapCall \/ BootstrapReturn \/ BootstrapExit
    \/ LoopExit \/ CtxAbort \/ SkipObject \/ TooLong
    \/ Admit \/ TokenWait \/ TokenWake \/ TokenWaitFail \/ Dispatch
    \/ DispatchReturn \/ ThrottleSleep \/ ThrottleWake \/ ThrottleAbort
    \/ ThrottlePanic
    \/ DrainCall \/ DrainSkip \/ DrainReturn

Next == CallerNext \/ WorkerNext

Spec == Init /\ [][Next]_vars

\* the same program with callers that run at the same time
ConcSpec == ConcInit /\ [][Next]_vars

\* the worker goroutine keeps running, every client call returns, and a
\* caller whose WaitGroup is released goes on
FairSpec ==
    /\ Spec
    /\ WF_vars(WorkerNext)
    /\ \A c \in 1..NumCallers : WF_vars(WaitReturn(c))

\* ------------------------------------------------------------- claims

HasVec(j, i) == j.vecs[i] # NoVec
HasErr(j, i) == j.errs[i] # NoErr

\* a client call of the worker is in flight
Calling == wpc \in {"bootCall", "dispCall", "drainCall"}

\* the job indices of the texts the call in flight carries
InFlight ==
    IF wpc = "bootCall" THEN <<objCounter>>
    ELSE IF wpc \in {"dispCall", "drainCall"} THEN origIndex
    ELSE << >>

\* C1: when ObjectBatch returns, every index of the job is in exactly one
\* of: skipped with neither vector nor error; vector and no error; error and
\* no vector.
C1_ExactlyOneOutcome ==
    \A c \in Callers :
        pc[c] = "returned" =>
            \A i \in 1..jobs[c].n :
                LET j == jobs[c]
                    skipped == j.skipObject[i] /\ ~HasVec(j, i) /\ ~HasErr(j, i)
                    vector == HasVec(j, i) /\ ~HasErr(j, i)
                    error == HasErr(j, i) /\ ~HasVec(j, i)
                IN /\ skipped \/ vector \/ error
                   /\ ~(skipped /\ vector) /\ ~(skipped /\ error)
                   /\ ~(vector /\ error)

\* C2: every job that ObjectBatch enqueues eventually has its completion
\* signal fired and its caller unblocked, whatever the client returns.
C2_EveryJobCompletes ==
    \A c \in 1..NumCallers : (pc[c] = "waiting") ~> (pc[c] = "returned")

C4_SentAtMostOnce ==
    \A k \in 1..Len(InFlight) : ~Job.sent[InFlight[k]]


AllSkipped(j) == \A i \in 1..j.n : j.skipObject[i]

\* C5 as stated: if every object is skipped, ObjectBatch returns without
\* enqueuing a job, with an empty error map and no vector.
C5_AllSkippedEmptyResult ==
    \A c \in Callers :
        (pc[c] = "returned" /\ AllSkipped(jobs[c])) =>
            /\ jobs[c].path # "queue"
            /\ \A i \in 1..jobs[c].n : ~HasErr(jobs[c], i) /\ ~HasVec(jobs[c], i)

\* C5 amended: if every object is skipped, ObjectBatch returns without
\* enqueuing a job and without a client call, no index has a vector, and the
\* worker's state and the queue are as they were; the error map is empty if
\* the encoding of the model resolved, and holds the encoding error for every
\* index if it did not.
C5_AllSkippedShortCut ==
    /\ [](\A c \in Callers :
            (pc[c] = "returned" /\ AllSkipped(jobs[c])) =>
                /\ jobs[c].path \in {"skipAll", "tkeErr"}
                /\ jobs[c].done = 0
                /\ \A i \in 1..jobs[c].n :
                      /\ ~jobs[c].sent[i] /\ ~HasVec(jobs[c], i)
                      /\ jobs[c].path = "skipAll" => ~HasErr(jobs[c], i)
                      /\ jobs[c].path = "tkeErr" => jobs[c].errs[i] = "encoding")
    /\ [][\A c \in Callers :
            (pc[c] = "idle" /\ pc'[c] = "returned") =>
                UNCHANGED <<workerVars, jobQueueCh>>]_vars

\* C5 witness: an all-skipped call has returned by the short cut after the
\* worker has learnt rate limits from an earlier job
C5_Witness ==
    \E c \in Callers :
        /\ pc[c] = "returned" /\ AllSkipped(jobs[c]) /\ jobs[c].path = "skipAll"
        /\ jobs[c].n > 1 /\ ~firstRequest

RECURSIVE TokensOf(_, _)
\* the token count of the texts at the indices idx of job j
TokensOf(j, idx) ==
    IF idx = << >> THEN 0 ELSE j.tokens[Head(idx)] + TokensOf(j, Tail(idx))

\* the remaining tokens the worker knows of when it sends the first request
KnownAtBootstrap == IF rateLimit = NilRL THEN 0 ELSE rateLimit.RemainingTokens

\* C6 as stated: no call of the worker carries more tokens than 95% of the
\* remaining tokens the worker knew of when it put the call together.
C6_EveryCallUnderBudget ==
    Calling =>
        100 * TokensOf(Job, InFlight)
            <= 95 * (IF wpc = "bootCall" THEN KnownAtBootstrap ELSE accBudget)

\* C6 amended: no vectorizer-batch that the second loop or the drain sends
\* carries more tokens than 95% of the remaining tokens the worker knew of
\* when it admitted the batch's objects; the first request of the first loop
\* is sent with no budget check.
C6_BatchUnderBudget ==
    wpc \in {"dispCall", "drainCall"} =>
        100 * TokensOf(Job, origIndex) <= 95 * accBudget

\* C6 witness: a batch is in flight because the budget refused the next object
C6_Witness ==
    /\ wpc = "dispCall" /\ origIndex # << >>
    /\ objCounter <= Job.n /\ ~Job.skipObject[objCounter]
    /\ ~UnderBudget(tokensInCurrentBatch + Job.tokens[objCounter], rateLimit)

\* C7: no client call of the worker carries more than MaxObjectsPerBatch texts.
C7_CallWithinCap == Len(InFlight) <= MaxObjectsPerBatch

\* C7 witness: a full batch is in flight and the cap alone refused the next
\* object
C7_Witness ==
    /\ wpc = "dispCall" /\ Len(origIndex) = MaxObjectsPerBatch
    /\ objCounter <= Job.n /\ ~Job.skipObject[objCounter]
    /\ Job.tokens[objCounter] <= rateLimit.LimitTokens
    /\ UnderBudget(tokensInCurrentBatch + Job.tokens[objCounter], rateLimit)
    /\ UnderTime(timePerToken, tokensInCurrentBatch)

\* C8: the worker enters neither sleep when the time since the job's start
\* plus the sleep exceeds maxBatchTime, and marks objects failed instead.
C8_NoSleepPastDeadline ==
    /\ [](wpc = "tokenSleep" =>
            Job.elapsed + SleepTime(rateLimit, Job.tokens[objCounter])
                <= maxBatchTime)
    /\ [](wpc = "requestSleep" =>
            Job.elapsed + rateLimit.ResetRequests <= maxBatchTime)
    /\ [][(/\ AtTokenWait
           /\ Job.elapsed + SleepTime(rateLimit, Job.tokens[objCounter])
                 > maxBatchTime
           /\ workerVars' # workerVars)
          => HasErr(jobs'[cur], objCounter)]_vars
    /\ [][(/\ wpc = "dispCall" /\ wpc' # "dispCall"
           /\ Throttled(rateLimit')
           /\ jobs'[cur].elapsed + rateLimit'.ResetRequests > maxBatchTime)
          => \E i \in 1..Job.n : jobs'[cur].errs[i] = "rateLimit"]_vars

\* C9: when the second loop finds the context cancelled, every non-skipped
\* index that no call has carried and that has no error yet (the objects of
\* the pending batch among them) gets the cancellation error, every index
\* with an outcome keeps it, and the job ends with no further call.
C9_CtxAbortFailsUndispatched ==
    /\ [][CtxAbort =>
            \A i \in 1..Job.n :
                /\ (~Job.skipObject[i] /\ ~Job.sent[i] /\ ~HasErr(Job, i))
                      => jobs'[cur].errs[i] = "ctx"
                /\ (Job.sent[i] \/ HasErr(Job, i))
                      => /\ jobs'[cur].errs[i] = Job.errs[i]
                         /\ jobs'[cur].vecs[i] = Job.vecs[i]]_vars
    /\ [](Calling => \A i \in 1..Job.n : Job.errs[i] # "ctx")

\* C10: when the worker gives up after a request because no request is left
\* and the refresh comes too late, the rate-limit error goes only to
\* non-skipped indices that no call has carried.
C10_ThrottleAbortSparesDispatched ==
    [][ThrottleAbort =>
         \A i \in 1..Job.n :
             jobs'[cur].errs[i] = "rateLimit"
                 => ~Job.skipObject[i] /\ ~jobs'[cur].sent[i]]_vars

\* the number of times caller c is in the queue
TimesQueued(c) == Cardinality({k \in 1..Len(jobQueueCh) : jobQueueCh[k] = c})

\* C11: for any number of callers that run at the same time the queue never
\* holds more than BatchChannelSize jobs; a caller that sends while the queue
\* is full blocks, with no error and with its job kept as it is, and can
\* complete its send exactly when the queue has room, which it has once the
\* worker has received a job; a job that was sent is in the queue once or in
\* the worker's hands until it is signalled.
C11_FullQueueBlocksSender ==
    /\ [](Len(jobQueueCh) <= BatchChannelSize)
    /\ [](\A c \in Callers :
            /\ pc[c] = "sending" =>
                  /\ (ENABLED Enqueue(c)) <=> Len(jobQueueCh) < BatchChannelSize
                  /\ TimesQueued(c) = 0 /\ jobs[c].done = 0
                  /\ \A i \in 1..jobs[c].n : ~HasErr(jobs[c], i) /\ ~HasVec(jobs[c], i)
            /\ (pc[c] = "waiting" /\ jobs[c].done = 0) =>
                  \/ TimesQueued(c) = 1 /\ ~(cur = c /\ wpc # "recv")
                  \/ TimesQueued(c) = 0 /\ cur = c /\ wpc # "recv")
    /\ [][\A c \in Callers :
            pc[c] = "sending" =>
                \/ /\ pc'[c] = "sending"
                   /\ jobs'[c] = [jobs[c] EXCEPT !.elapsed = jobs'[c].elapsed]
                \/ /\ pc'[c] = "waiting"
                   /\ Len(jobQueueCh) < BatchChannelSize
                   /\ jobQueueCh' = Append(jobQueueCh, c)
                   /\ jobs'[c] = jobs[c]]_vars
    /\ [][Receive => Len(jobQueueCh') < BatchChannelSize]_vars

\* C11 witness: the queue is full and a caller with a job to send is blocked
C11_Witness ==
    \E c \in Callers :
        /\ pc[c] = "sending" /\ Len(jobQueueCh) = BatchChannelSize
        /\ ~ENABLED Enqueue(c)
        /\ \E d \in Callers : d # c /\ pc[d] = "waiting" /\ TimesQueued(d) = 1

\* the worker holds the job of caller c: received and not yet signalled
InHand(c) == cur = c /\ wpc # "recv" /\ jobs[c].done = 0

\* the buffers and the signal of c's job, which the worker writes
Written(j) == <<j.vecs, j.errs, j.sent, j.done>>

CallFails ==
    /\ Calling /\ InFlight # << >>
    /\ \A k \in 1..Len(InFlight) :
          /\ jobs'[cur].errs[InFlight[k]] = "call"
          /\ jobs'[cur].vecs[InFlight[k]] = Job.vecs[InFlight[k]]

\* C13 as stated: the rate limits change only in a step in which a client
\* call returns without a call-level error.
C13_OnlyCompletedCallsWrite ==
    [][rateLimit' # rateLimit => Calling /\ ~CallFails]_vars

\* C13 amended: the rate limits are written by the worker only, in two kinds
\* of step: the return of a client call, failed at call level or not, which
\* puts what the client reported in their place (the first request always,
\* the later ones if the client reported any), and the end of the sleep for
\* the token refresh, which adds the text's share of the token limit to the
\* remaining tokens and leaves the other fields alone.  No step of a caller
\* changes them.
C13_RateLimitWrittenByCallOrCredit ==
    /\ [][rateLimit' # rateLimit =>
            \/ wpc = "bootCall" /\ rateLimit' \in RLValues \cup {NilRL}
            \/ wpc \in {"dispCall", "drainCall"} /\ rateLimit' \in RLValues
            \/ /\ wpc = "tokenSleep"
               /\ rateLimit' = [rateLimit EXCEPT !.RemainingTokens =
                     @ + (rateLimit.LimitTokens * Job.tokens[objCounter])
                             \div rateLimit.LimitTokens]]_vars
    /\ [][(pc' # pc \/ calls' # calls) => rateLimit' = rateLimit]_vars

\* C13 witness: the remaining tokens hold a credit on top of what a client
\* call reported, and the job has been served by calls
C13_Witness ==
    /\ wpc = "loop" /\ rateLimit \notin RLValues \cup {NilRL, ZeroRL}
    /\ \E i \in 1..Job.n : Job.sent[i]

\* a client call returns in this step
CallReturns == Calling /\ wpc' # wpc

\* C14: over all the jobs of the worker, a call is the one-text first request
\* of the first loop, carrying the job's first non-skipped index, if and only
\* if no client call has returned without a call-level error before: the
\* flag firstRequest starts true, is cleared by the first call that returns
\* without a call-level error and by nothing else, and is never set again;
\* a first request is in flight only while it is set, a vectorizer-batch of
\* the second loop or the drain only once it is cleared.
C14_ProbeUntilFirstSuccess ==
    /\ [](wpc = "bootCall" =>
            /\ firstRequest /\ Len(InFlight) = 1
            /\ ~Job.skipObject[objCounter]
            /\ \A i \in 1..(objCounter - 1) : Job.skipObject[i])
    /\ [](wpc \in {"dispCall", "drainCall"} => ~firstRequest)
    /\ [][(CallReturns /\ ~CallFails) => ~firstRequest']_vars
    /\ [][firstRequest' # firstRequest =>
            firstRequest /\ wpc = "bootCall" /\ ~CallFails]_vars

\* C14 witness: the worker sends a batch of two texts for a later job, for
\* which it has made no first request
C14_Witness ==
    /\ wpc = "dispCall" /\ Len(origIndex) = 2
    /\ calls[cur] = 2 /\ ~firstRequest
    /\ \A i \in 1..Job.n : ~Job.sent[i]

\* a batch has been put together and no call has carried it
Pending ==
    /\ origIndex # << >>
    /\ \A k \in 1..Len(origIndex) : ~Job.sent[origIndex[k]]

\* C15: when the second loop ends at the end of the job with a batch put
\* together, no call has carried that batch; the worker's next step is then
\* the request for it, not the signal; when the request returns every index
\* of the batch has been carried and has a vector or an error, the rate
\* limits are the ones the client reported (the old ones if it reported
\* none), and the job is signalled in the same step, so the batch goes out
\* once.
C15_PendingBatchDrainedOnce ==
    /\ [][(wpc = "loop" /\ wpc' = "drain" /\ objCounter > Job.n
             /\ origIndex # << >>) => Pending]_vars
    /\ []((wpc = "drain" /\ objCounter > Job.n /\ origIndex # << >>) =>
             /\ ENABLED DrainCall /\ ~ENABLED DrainSkip
             /\ Job.done = 0)
    /\ [][(wpc = "drain" /\ wpc' # wpc /\ Pending /\ objCounter > Job.n) =>
             /\ wpc' = "drainCall"
             /\ UNCHANGED <<jobs, origIndex, rateLimit>>]_vars
    /\ [][(wpc = "drainCall" /\ wpc' # wpc) =>
             /\ wpc' = "recv" /\ jobs'[cur].done = 1 /\ Job.done = 0
             /\ rateLimit' \in RLValues \cup {rateLimit}
             /\ \A k \in 1..Len(origIndex) :
                   /\ jobs'[cur].sent[origIndex[k]]
                   /\ \/ HasVec(jobs'[cur], origIndex[k])
                      \/ HasErr(jobs'[cur], origIndex[k])]_vars

\* C15 witness: the last object is skipped and the request for the batch
\* that was left is in flight
C15_Witness ==
    /\ wpc = "drainCall" /\ Pending
    /\ Job.skipObject[Job.n]

\* the object at objCounter meets the three admission conditions
MeetsConditions ==
    Admits(tokensInCurrentBatch, Job.tokens[objCounter], rateLimit,
           timePerToken, Len(origIndex))

\* the worker takes a step of the second loop at a non-skipped object
StepAtObject == AtObject /\ workerVars' # workerVars

\* the object at objCounter joins the batch in this step
Added ==
    /\ origIndex' = Append(origIndex, objCounter)
    /\ tokensInCurrentBatch' = tokensInCurrentBatch + Job.tokens[objCounter]
    /\ objCounter' = objCounter + 1

\* the job of Scenario A, scaled: three objects of one token each, none
\* skipped, and the first request has served the first of them
ScenarioA ==
    /\ cur \in Callers /\ Job.n = 3 /\ \A i \in 1..3 : ~Job.skipObject[i] /\ Job.tokens[i] = 1
    /\ HasVec(Job, 1) /\ ~HasErr(Job, 1)

\* the rate limits are those of the first request, with tokens left for the
\* other two objects, and no vectorizer-batch has been timed yet
AfterProbeA ==
    /\ rateLimit.RemainingTokens = 4 /\ rateLimit.LimitTokens = 4
    /\ timePerToken = Tpt(0, 1)

\* the numbers of Scenario A: after the first request 25 tokens remain of a
\* limit of 100; the second and the third text of 10 tokens are admitted
ScenarioANumbers ==
    /\ Admits(0, 10, RL(100, 25, 1, 1, 0), Tpt(0, 1), 0)
    /\ Admits(10, 10, RL(100, 25, 1, 1, 0), Tpt(0, 1), 1)

LimitFound ==
    /\ CallReturns /\ rateLimit' # NilRL
    /\ wpc = "bootCall" \/ rateLimit'.LimitTokens = rateLimit.LimitTokens

\* C17: a non-skipped object with more tokens than the provider's token
\* limit gets the error "text too long for vectorization" and the worker
\* moves to the next index with no sleep and no call; no call carries such an
\* object.
C17_TooLongFailedNeverSent ==
    /\ [][(StepAtObject /\ ~CtxAbort
              /\ Job.tokens[objCounter] > rateLimit.LimitTokens) =>
             /\ jobs'[cur].errs[objCounter] = "tooLong"
             /\ ~HasVec(jobs'[cur], objCounter)
             /\ jobs'[cur].sent[objCounter] = Job.sent[objCounter]
             /\ objCounter' = objCounter + 1 /\ wpc' = "loop"
             /\ UNCHANGED <<origIndex, tokensInCurrentBatch, rateLimit>>]_vars
    /\ [][LimitFound =>
             \A k \in 1..Len(InFlight) :
                 Job.tokens[InFlight[k]] <= rateLimit'.LimitTokens]_vars

\* the batch is empty, the object at objCounter is within the token limit
\* and over 95% of the remaining tokens, and the tokens will refresh
OverBudgetAlone ==
    /\ AtAdmission /\ Len(origIndex) = 0
    /\ 100 * Job.tokens[objCounter] >= 95 * rateLimit.RemainingTokens
    /\ rateLimit.ResetTokens > 0

\* the wait for the object's share of the token limit, in seconds
WaitFor ==
    (rateLimit.ResetTokens * Job.tokens[objCounter]) \div rateLimit.LimitTokens + 1

\* the worker takes a step of the second loop other than the context abort
LoopStep == wpc = "loop" /\ workerVars' # workerVars /\ ~CtxAbort

\* C18: with an empty batch, an object within the token limit and over 95%
\* of the remaining tokens, and a positive token reset: if the time since
\* the job's start plus the wait is under maxBatchTime the worker sleeps,
\* then adds the object's share of the token limit to the remaining tokens
\* and tries the same object again, and an object it has slept for is then
\* admitted (after a further sleep, if need be) and not failed; if the wait
\* does not fit, the object gets the time-limit error and the worker moves on.
C18_TokenWaitThenIncluded ==
    /\ [][(LoopStep /\ OverBudgetAlone /\ Job.elapsed + WaitFor < maxBatchTime)
             => /\ wpc' = "tokenSleep"
                /\ UNCHANGED <<jobs, objCounter, origIndex, rateLimit>>]_vars
    /\ [][(wpc = "tokenSleep" /\ workerVars' # workerVars) =>
             /\ wpc' = "loop" /\ objCounter' = objCounter
             /\ rateLimit' = [rateLimit EXCEPT !.RemainingTokens =
                   @ + (rateLimit.LimitTokens * Job.tokens[objCounter])
                           \div rateLimit.LimitTokens]
             /\ jobs'[cur].elapsed = Min(Job.elapsed + WaitFor, maxBatchTime)
             /\ Written(jobs'[cur]) = Written(Job)]_vars
    /\ [][(LoopStep /\ slept) =>
             /\ ~HasErr(jobs'[cur], objCounter)
             /\ Added \/ wpc' = "tokenSleep"]_vars
    /\ [][(LoopStep /\ OverBudgetAlone /\ Job.elapsed + WaitFor >= maxBatchTime)
             => /\ jobs'[cur].errs[objCounter] = "tooLongWait"
                /\ ~HasVec(jobs'[cur], objCounter)
                /\ objCounter' = objCounter + 1 /\ wpc' = "loop"
                /\ UNCHANGED <<origIndex, rateLimit>>]_vars

\* the job indices the call in flight carries
Carried == {InFlight[k] : k \in 1..Len(InFlight)}

\* the step ends the second loop because no request is left in time, and
\* writes that error after the call has returned
AbortsAfterCall == wpc = "dispCall" /\ wpc' = "drain"

\* C19: when a client call returns, either every index it carried has the
\* call's error and none of them a new vector, or each index it carried has
\* the vector of its own text with its error entry as before, or the error
\* of its position with its vector entry as before; the entries of the
\* indices the call did not carry are as before.  (The step that ends the
\* loop for want of requests writes its own error after the call; there the
\* vectors alone show the call's writes.)
C19_CallWritesItsBatchOnly ==
    [][CallReturns =>
         LET old == Job
             new == jobs'[cur]
         IN /\ \A i \in (1..old.n) \ Carried :
                  /\ new.vecs[i] = old.vecs[i]
                  /\ ~AbortsAfterCall => new.errs[i] = old.errs[i]
            /\ \/ \A i \in Carried :
                     /\ new.vecs[i] = old.vecs[i]
                     /\ ~AbortsAfterCall => new.errs[i] = "call"
               \/ \A i \in Carried :
                     \/ /\ new.vecs[i] = i
                        /\ ~AbortsAfterCall => new.errs[i] = old.errs[i]
                     \/ /\ new.vecs[i] = old.vecs[i]
                        /\ ~AbortsAfterCall => new.errs[i] = "item"]_vars

\* C19 witness: a call with two texts has returned with a vector for the
\* first and an error for the second, while another index has no entry
C19_Witness ==
    /\ wpc = "requestSleep" /\ origIndex = <<2, 3>>
    /\ Job.vecs[2] = 2 /\ ~HasErr(Job, 2)
    /\ Job.errs[3] = "item" /\ ~HasVec(Job, 3)

\* C20: every client call of the worker carries at least one text, so that
\* timePerToken is never a quotient by a token sum of zero and the worker
\* never reads origIndex[0] of an empty batch.
C20_EveryCallCarriesText ==
    /\ Calling => Len(InFlight) >= 1
    /\ timePerToken.tok > 0
    /\ wpc # "panicked"

=============================================================================
